---- MODULE Spec2Model ----
(***************************************************************************)
(* Model of the illustration-sharing web application: the image ingestion  *)
(* pipeline (image_service.py), the request handlers that use it (app.py:  *)
(* upload, post, like, delete) and the batch thumbnail generator           *)
(* (generate_thumbs.py).                                                   *)
(*                                                                         *)
(* A Python string is a sequence of one-character strings.  Two multi-     *)
(* character atoms stand for runs of characters that no operation of the   *)
(* program looks inside: a uuid4().hex value (32 hexadecimal digits) and   *)
(* KANJI, one non-ASCII character.  None-able values are option records.   *)
(***************************************************************************)
EXTENDS Integers, Sequences, FiniteSets, TLC

VARIABLES fs, posts, likes, nextPostId, uuidCount, last

vars == <<fs, posts, likes, nextPostId, uuidCount, last>>

(***************************************************************************)
(* Bounds of the model.                                                    *)
(***************************************************************************)
MaxUploads == 2
MaxLikes == 1

(***************************************************************************)
(* Python values.                                                          *)
(***************************************************************************)
None == [some |-> FALSE, val |-> <<>>]
NoneStr == [some |-> FALSE, val |-> ""]
Some(v) == [some |-> TRUE, val |-> v]
Truthy(o) == o.some /\ o.val # <<>>
TruthyStr(o) == o.some /\ o.val # ""

KANJI == "U+753B"
UPPER == <<"A", "B", "C", "D", "E", "F", "G", "H", "I", "J", "K", "L", "M",
           "N", "O", "P", "Q", "R", "S", "T", "U", "V", "W", "X", "Y", "Z">>
LOWER == <<"a", "b", "c", "d", "e", "f", "g", "h", "i", "j", "k", "l", "m",
           "n", "o", "p", "q", "r", "s", "t", "u", "v", "w", "x", "y", "z">>
DIGITS == {"0", "1", "2", "3", "4", "5", "6", "7", "8", "9"}

Range(s) == {s[i] : i \in DOMAIN s}
IsSpace(c) == c = " "
IsAscii(c) == c # KANJI

\* str.lower()
LowerOf == [c \in Range(UPPER) |-> LOWER[CHOOSE i \in DOMAIN UPPER : UPPER[i] = c]]
LowerChar(c) == IF c \in DOMAIN LowerOf THEN LowerOf[c] ELSE c
RECURSIVE lower(_)
lower(s) == IF s = <<>> THEN <<>> ELSE <<LowerChar(Head(s))>> \o lower(Tail(s))

\* str.rfind(c), 1-based; 0 when c does not occur
RECURSIVE rfind(_, _)
rfind(s, c) == IF s = <<>> THEN 0
               ELSE IF s[Len(s)] = c THEN Len(s)
               ELSE rfind(SubSeq(s, 1, Len(s) - 1), c)

\* str.startswith(prefix)
startswith(s, prefix) == /\ Len(s) >= Len(prefix)
                         /\ SubSeq(s, 1, Len(prefix)) = prefix

\* str.lstrip / rstrip / strip over a set of characters
RECURSIVE lstripSet(_, _)
lstripSet(s, cs) == IF s # <<>> /\ Head(s) \in cs THEN lstripSet(Tail(s), cs) ELSE s
RECURSIVE rstripSet(_, _)
rstripSet(s, cs) == IF s # <<>> /\ s[Len(s)] \in cs
                    THEN rstripSet(SubSeq(s, 1, Len(s) - 1), cs)
                    ELSE s
stripSet(s, cs) == rstripSet(lstripSet(s, cs), cs)
strip(s) == stripSet(s, {" "})

\* s.replace(old, new) for single characters
RECURSIVE replace(_, _, _)
replace(s, old, new) ==
    IF s = <<>> THEN <<>>
    ELSE <<IF Head(s) = old THEN new ELSE Head(s)>> \o replace(Tail(s), old, new)

\* the characters of s that satisfy keep, in order
RECURSIVE SelectChars(_, _)
SelectChars(s, keep) == IF s = <<>> THEN <<>>
                        ELSE IF Head(s) \in keep
                             THEN <<Head(s)>> \o SelectChars(Tail(s), keep)
                             ELSE SelectChars(Tail(s), keep)

\* "_".join(s.split()): runs of whitespace become one "_", none at the ends
RECURSIVE joinWords(_, _)
joinWords(s, pending) ==
    IF s = <<>> THEN <<>>
    ELSE IF IsSpace(Head(s)) THEN joinWords(Tail(s), TRUE)
    ELSE (IF pending THEN <<"_">> ELSE <<>>) \o <<Head(s)>> \o joinWords(Tail(s), FALSE)
underscoreJoinSplit(s) == joinWords(lstripSet(s, {" "}), FALSE)

\* str.encode("ascii", "ignore").decode("ascii") after NFKD normalisation:
\* a character with no ASCII decomposition is dropped
encodeAsciiIgnore(s) == SelectChars(s, Range(s) \ {KANJI})

(***************************************************************************)
(* os.path and werkzeug.utils helpers used by image_service.py.            *)
(***************************************************************************)
\* _filename_ascii_strip_re = [^A-Za-z0-9_.-]
SafeChars == Range(UPPER) \cup Range(LOWER) \cup DIGITS \cup {"_", ".", "-"}

\* werkzeug.utils.secure_filename on a POSIX host
secure_filename(filename) ==
    LET ascii == encodeAsciiIgnore(filename)
        nosep == replace(ascii, "/", " ")
        joined == underscoreJoinSplit(nosep)
        kept == SelectChars(joined, SafeChars)
    IN  stripSet(kept, {".", "_"})

\* os.path.splitext: <<root, ext>>; leading dots of the basename are no extension
splitext(p) ==
    LET sepIndex == rfind(p, "/")
        dotIndex == rfind(p, ".")
    IN  IF /\ dotIndex > sepIndex
           /\ \E k \in (sepIndex + 1)..(dotIndex - 1) : p[k] # "."
        THEN <<SubSeq(p, 1, dotIndex - 1), SubSeq(p, dotIndex, Len(p))>>
        ELSE <<p, <<>>>>

(***************************************************************************)
(* image_service.py                                                        *)
(***************************************************************************)
ALLOWED_EXTENSIONS == {<<"p", "n", "g">>, <<"j", "p", "g">>, <<"j", "p", "e", "g">>,
                       <<"g", "i", "f">>, <<"w", "e", "b", "p">>}
DEFAULT_MAX_DIMENSIONS == <<4000, 4000>>
DEFAULT_THUMBNAIL_SIZE == <<300, 300>>

\* the user-facing messages (the source's Japanese literals, in English)
MSG_NO_FILE == "no image file selected"
MSG_BAD_EXTENSION == "upload an image file (png,jpg,jpeg,gif,webp)"
MSG_BAD_MIMETYPE == "upload an image file"
MSG_INVALID_IMAGE == "upload a valid image file"
MSG_TOO_LARGE(max_w, max_h) ==
    "image too large (max " \o ToString(max_w) \o "x" \o ToString(max_h) \o ")."

allowed_file(filename) ==
    IF filename = <<>> \/ "." \notin Range(filename)
    THEN FALSE
    ELSE LET file_extension == lower(SubSeq(filename, rfind(filename, ".") + 1, Len(filename)))
         IN  file_extension \in ALLOWED_EXTENSIONS

\* FileStorage.mimetype: the media type parsed from the Content-Type header,
\* empty when the part declares none
FileStorageMimetype(file_storage) ==
    IF Truthy(file_storage.content_type)
    THEN Some(lower(file_storage.content_type.val))
    ELSE Some(<<>>)

\* A file's content on disk: a decodable image, or the truncated remains of a
\* write that failed
TRUNCATED == [valid |-> FALSE, mode |-> "", width |-> 0, height |-> 0]
Stored(image) == [valid |-> TRUE, mode |-> image.mode,
                  width |-> image.width, height |-> image.height]

\* PIL.Image.registered_extensions() for the extensions the gate accepts
ImageFormat(ext) ==
    CASE ext = <<".", "p", "n", "g">> -> Some("PNG")
      [] ext \in {<<".", "j", "p", "g">>, <<".", "j", "p", "e", "g">>} -> Some("JPEG")
      [] ext = <<".", "g", "i", "f">> -> Some("GIF")
      [] ext = <<".", "w", "e", "b", "p">> -> Some("WEBP")
      [] OTHER -> NoneStr

\* the modes each encoder writes; GIF and WebP convert what they cannot write
CanWrite(format, mode) ==
    CASE format = "PNG" -> mode \in {"1", "L", "LA", "I", "P", "RGB", "RGBA"}
      [] format = "JPEG" -> mode \in {"1", "L", "RGB", "RGBX", "CMYK", "YCbCr"}
      [] OTHER -> TRUE

\* Image.save(path) into directory listing dir.  The format comes from the
\* extension before the file is opened; a failure after opening removes the
\* file when the call created it and leaves a file that was there before
\* truncated.  <<raised, dir'>>
Put(dir, name, content) ==
    [n \in DOMAIN dir \cup {name} |-> IF n = name THEN content ELSE dir[n]]
Drop(dir, name) == [n \in DOMAIN dir \ {name} |-> dir[n]]

ImageSave(dir, name, image, io_ok) ==
    LET format == ImageFormat(lower(splitext(name)[2]))
    IN  IF ~format.some THEN <<TRUE, dir>>
        ELSE IF CanWrite(format.val, image.mode) /\ io_ok
             THEN <<FALSE, Put(dir, name, Stored(image))>>
             ELSE IF name \in DOMAIN dir
                  THEN <<TRUE, Put(dir, name, TRUNCATED)>>
                  ELSE <<TRUE, dir>>

\* _verify_image: raises unless the stream decodes
VerifyRaises(stream) == ~stream.valid

_ensure_saveable_mode(image) ==
    IF image.mode \in {"RGBA", "P"} THEN [image EXCEPT !.mode = "RGB"] ELSE image

\* _save_image(image, filepath): <<raised, files'>>
_save_image(files, image, filename, io_ok) ==
    ImageSave(files, filename, _ensure_saveable_mode(image), io_ok)

\* Image.thumbnail(size): the size the copy is reduced to.  An image that fits
\* the box is left alone; otherwise one side is the box's and the other the
\* nearer of floor and ceil of the aspect-preserving value, at least 1.
Abs(n) == IF n < 0 THEN -n ELSE n
Max(a, b) == IF a >= b THEN a ELSE b
ThumbnailSize(width, height, size) ==
    LET x == size[1]
        y == size[2]
    IN  IF x >= width /\ y >= height THEN <<width, height>>
        ELSE IF x * height >= width * y
        THEN LET fl == (y * width) \div height
                 ce == IF (y * width) % height = 0 THEN fl ELSE fl + 1
                 best == IF Abs(width * y - fl * height) <= Abs(width * y - ce * height)
                         THEN fl ELSE ce
             IN  <<Max(best, 1), y>>
        ELSE LET fl == (x * height) \div width
                 ce == IF (x * height) % width = 0 THEN fl ELSE fl + 1
                 best == IF fl = 0
                            \/ Abs(width * fl - x * height) * ce
                                 <= Abs(width * ce - x * height) * fl
                         THEN fl ELSE ce
             IN  <<x, Max(best, 1)>>

\* create_thumbnail(image, thumbnail_dir, filename, size).  env.thumb names the
\* step that fails, if any.  <<raised, fs'>>
create_thumbnail(fsys, image, filename, size, env) ==
    IF env.thumb = "makedirs" THEN <<TRUE, fsys>>
    ELSE LET made == [fsys EXCEPT !.thumbsDir = TRUE]
             box == ThumbnailSize(image.width, image.height, size)
             resized == [image EXCEPT !.width = box[1], !.height = box[2]]
             thumb == IF resized.mode \in {"RGBA", "P"}
                      THEN [resized EXCEPT !.mode = "RGB"] ELSE resized
             saved == ImageSave(made.thumbs, filename, thumb, env.thumb # "save")
         IN  IF env.thumb = "resize" THEN <<TRUE, made>>
             ELSE <<saved[1], [made EXCEPT !.thumbs = saved[2]]>>

\* the message a failed write of the primary image is answered with
StoreFailedMessage == MSG_INVALID_IMAGE

\* GeneratedFilename with the sanitized original name kept in place of the token
GeneratedFilenameKeepsName(uuidHex, filename_original) ==
    secure_filename(filename_original)

\* the generated name: a fresh uuid4().hex followed by the sanitized name's extension
GeneratedFilename(uuidHex, filename_original) ==
    <<uuidHex>> \o splitext(secure_filename(filename_original))[2]

\* Gate without the content-type check
GateWithoutMimetype(file_storage) ==
    IF ~file_storage.present THEN Some(MSG_NO_FILE)
    ELSE IF strip(file_storage.filename) = <<>> THEN Some(MSG_NO_FILE)
    ELSE IF ~allowed_file(file_storage.filename) THEN Some(MSG_BAD_EXTENSION)
    ELSE NoneStr

\* the Gate: the error it rejects with, or none
Gate(file_storage) ==
    IF ~file_storage.present THEN Some(MSG_NO_FILE)
    ELSE IF strip(file_storage.filename) = <<>> THEN Some(MSG_NO_FILE)
    ELSE IF ~allowed_file(file_storage.filename) THEN Some(MSG_BAD_EXTENSION)
    ELSE LET mimetype == IF Truthy(file_storage.content_type)
                         THEN file_storage.content_type
                         ELSE FileStorageMimetype(file_storage)
         IN  IF ~(Truthy(mimetype) /\ startswith(mimetype.val, <<"i", "m", "a", "g", "e", "/">>))
             THEN Some(MSG_BAD_MIMETYPE)
             ELSE NoneStr

\* process_uploaded_image(file_storage, "static/uploads", max_dimensions,
\* thumbnail_size).  uuidHex is the value uuid4().hex returns in this call and env
\* the outcome of each system call.  The result records the returned pair
\* (filename, error), the filesystem afterwards, whether the call raised instead
\* of returning, the pipeline state it ended in and whether the decoder ran.
Outcome(filename, error, fsys, raised, state, verified) ==
    [filename |-> filename, error |-> error, fs |-> fsys, raised |-> raised,
     state |-> state, verified |-> verified]

\* Reject with the upload root created before the checks
RejectAfterMakedirs(fsys, error, state, verified) ==
    Outcome(None, error, [fsys EXCEPT !.uploadDir = TRUE], FALSE, state, verified)

\* a return before the first filesystem call: (None, error)
Reject(fsys, error, state, verified) == Outcome(None, error, fsys, FALSE, state, verified)

\* ThumbnailStep with the failure reported to the caller
ThumbnailStepFatal(stored, image, filename, size, env) ==
    LET made == create_thumbnail(stored, image, filename, size, env)
    IN  IF made[1]
        THEN Outcome(None, Some(MSG_INVALID_IMAGE), made[2], FALSE, "ThumbnailFailed", TRUE)
        ELSE Outcome(Some(filename), NoneStr, made[2], FALSE, "Thumbnailed", TRUE)

\* the thumbnail step of the pipeline: a failure is swallowed
ThumbnailStep(stored, image, filename, size, env) ==
    LET made == create_thumbnail(stored, image, filename, size, env)
    IN  Outcome(Some(filename), NoneStr, made[2], FALSE,
                IF made[1] THEN "ThumbnailFailed" ELSE "Thumbnailed", TRUE)

process_uploaded_image(fsys, file_storage, max_dimensions, thumbnail_size, uuidHex, env) ==
    LET gate == Gate(file_storage)
    IN
    IF gate.some THEN Reject(fsys, gate, "GateRejected", FALSE)
    ELSE
    LET filename == GeneratedFilename(uuidHex, file_storage.filename)
        image == file_storage.stream
        max_w == max_dimensions[1]
        max_h == max_dimensions[2]
    IN
    IF VerifyRaises(file_storage.stream)
    THEN Reject(fsys, Some(MSG_INVALID_IMAGE), "DecodeRejected", TRUE)
    ELSE IF image.width > max_w \/ image.height > max_h
    THEN Reject(fsys, Some(MSG_TOO_LARGE(max_w, max_h)), "DimensionRejected", TRUE)
    ELSE IF ~env.makedirs
    THEN Outcome(None, NoneStr, fsys, TRUE, "Raised", TRUE)
    ELSE
    LET rooted == [fsys EXCEPT !.uploadDir = TRUE]
        saved == _save_image(rooted.files, image, filename, env.save)
        stored == [rooted EXCEPT !.files = saved[2]]
    IN
    IF saved[1]
    THEN Outcome(None, Some(StoreFailedMessage), stored, FALSE, "StoreFailed", TRUE)
    ELSE ThumbnailStep(stored, image, filename, thumbnail_size, env)

(***************************************************************************)
(* app.py                                                                  *)
(***************************************************************************)
\* the users table: three registered accounts
Users == {1, 2, 3}
Username(user_id) == CASE user_id = 1 -> "alice" [] user_id = 2 -> "bob" [] OTHER -> "admin"

UuidHex(k) == "uuid" \o ToString(k)

\* abort(code) inside a handler's try block: HTTPException is an Exception, so
\* the handler's own `except Exception` catches it, logs and aborts with 500
AbortInsideTry(code) == 500

MSG_NO_TITLE == "no title entered"
MSG_INSERT_FAILED == "failed to save the post"

Blank(title) == title = <<>> \/ strip(title) = <<>>

PostsWithId(id) == {p \in posts : p.id = id}

(***************************************************************************)
(* The inputs the requests are drawn from.                                 *)
(***************************************************************************)
Image(mode, width, height) == [valid |-> TRUE, mode |-> mode, width |-> width, height |-> height]
Garbage == [valid |-> FALSE, mode |-> "", width |-> 0, height |-> 0]
FileStorage(filename, content_type, stream) ==
    [present |-> TRUE, filename |-> filename, content_type |-> content_type, stream |-> stream]
NoFile == [present |-> FALSE, filename |-> <<>>, content_type |-> None, stream |-> Garbage]

IMAGE_PNG == Some(<<"i", "m", "a", "g", "e", "/", "p", "n", "g">>)
IMAGE_JPEG == Some(<<"i", "m", "a", "g", "e", "/", "j", "p", "e", "g">>)
TEXT_PLAIN == Some(<<"t", "e", "x", "t", "/", "p", "l", "a", "i", "n">>)
A_PNG == <<"a", ".", "p", "n", "g">>

\* a 50x50 RGB image sent as a.png, image/png
PlainPng == FileStorage(A_PNG, IMAGE_PNG, Image("RGB", 50, 50))

UploadCandidates ==
    { NoFile,
      FileStorage(<<" ">>, IMAGE_PNG, Image("RGB", 50, 50)),
      FileStorage(<<"a">>, IMAGE_PNG, Image("RGB", 50, 50)),
      FileStorage(<<"a", ".", "t", "x", "t">>, IMAGE_PNG, Image("RGB", 50, 50)),
      FileStorage(A_PNG, None, Image("RGB", 50, 50)),
      FileStorage(A_PNG, Some(<<>>), Image("RGB", 50, 50)),
      FileStorage(A_PNG, TEXT_PLAIN, Image("RGB", 50, 50)),
      FileStorage(A_PNG, IMAGE_PNG, Garbage),
      FileStorage(A_PNG, IMAGE_PNG, Image("RGB", 4001, 50)),
      FileStorage(A_PNG, IMAGE_PNG, Image("RGB", 50, 4001)),
      PlainPng,
      FileStorage(<<".", ".", "/", "A", " ", "B", ".", "J", "P", "G">>, IMAGE_JPEG,
                  Image("RGBA", 4000, 4000)),
      FileStorage(<<".", "p", "n", "g">>, IMAGE_PNG, Image("RGB", 50, 50)),
      FileStorage(<<KANJI, ".", "p", "n", "g">>, IMAGE_PNG, Image("RGB", 50, 50)),
      FileStorage(<<"a", ".", "j", "p", "g">>, IMAGE_JPEG, Image("LA", 50, 50)) }

Titles == {<<" ">>, <<"t">>}

\* the outcome of each system call of an upload: whether creating the upload
\* root, writing the primary image and the INSERT succeed, and the thumbnail step
\* that fails.  A call that is not reached has no outcome to choose.
NoFailure == [makedirs |-> TRUE, save |-> TRUE, thumb |-> "ok", db |-> TRUE]
UploadEnvs ==
    {e \in [makedirs : BOOLEAN, save : BOOLEAN, thumb : {"ok", "makedirs", "resize", "save"},
            db : BOOLEAN] :
        /\ ~e.makedirs => e.save
        /\ ~(e.makedirs /\ e.save) => e.thumb = "ok" /\ e.db}

Rejections == {"GateRejected", "DecodeRejected", "DimensionRejected"}

Returned(out) == [filename |-> out.filename, error |-> out.error, raised |-> out.raised,
                  state |-> out.state, verified |-> out.verified]

(***************************************************************************)
(* State after start-up: the three tables exist, no post, no like; the     *)
(* upload root exists when start-up created the database and may be        *)
(* missing when the database was already there.                            *)
(***************************************************************************)
EmptyDir == [n \in {} |-> TRUNCATED]

Init ==
    /\ fs \in [uploadDir : BOOLEAN, thumbsDir : {FALSE}, files : {EmptyDir}, thumbs : {EmptyDir}]
    /\ posts = {}
    /\ likes = {}
    /\ nextPostId = 1
    /\ uuidCount = 0
    /\ last = [op |-> "start"]

(***************************************************************************)
(* POST /upload                                                            *)
(***************************************************************************)
upload(user, title, file_storage, env) ==
    /\ UNCHANGED likes
    /\ IF Blank(title)
       THEN /\ last' = [op |-> "upload", called |-> FALSE, status |-> 200,
                        flash |-> Some(MSG_NO_TITLE)]
            /\ UNCHANGED <<fs, posts, nextPostId, uuidCount>>
       ELSE LET out == process_uploaded_image(fs, file_storage, DEFAULT_MAX_DIMENSIONS,
                                              DEFAULT_THUMBNAIL_SIZE, UuidHex(uuidCount + 1), env)
                base == [op |-> "upload", called |-> TRUE, file |-> file_storage, env |-> env,
                         ret |-> Returned(out), status |-> 200, flash |-> NoneStr]
            IN  /\ out.state # "GateRejected" => uuidCount < MaxUploads
                /\ uuidCount' = IF out.state = "GateRejected" THEN uuidCount ELSE uuidCount + 1
                /\ fs' = out.fs
                /\ IF out.raised
                   THEN /\ last' = [base EXCEPT !.status = 500]
                        /\ UNCHANGED <<posts, nextPostId>>
                   ELSE IF TruthyStr(out.error)
                   THEN /\ last' = [base EXCEPT !.flash = out.error]
                        /\ UNCHANGED <<posts, nextPostId>>
                   ELSE IF env.db
                   THEN /\ posts' = posts \cup {[id |-> nextPostId, user_id |-> user,
                                                 filename |-> out.filename.val]}
                        /\ nextPostId' = nextPostId + 1
                        /\ last' = [base EXCEPT !.status = 302]
                   ELSE /\ last' = [base EXCEPT !.flash = Some(MSG_INSERT_FAILED)]
                        /\ UNCHANGED <<posts, nextPostId>>

\* the system calls an upload of file_storage reaches have an outcome to choose
EnvsFor(file_storage) ==
    LET dry == process_uploaded_image(fs, file_storage, DEFAULT_MAX_DIMENSIONS,
                                      DEFAULT_THUMBNAIL_SIZE, UuidHex(0), NoFailure).state
    IN  IF dry \in Rejections THEN {NoFailure}
        ELSE IF dry = "StoreFailed" THEN {e \in UploadEnvs : e.save /\ e.thumb = "ok" /\ e.db}
        ELSE UploadEnvs

\* a request with a blank title is answered before its file is looked at
Upload(users, candidates) ==
    \E user \in users, title \in Titles :
        \E file_storage \in IF Blank(title) THEN {NoFile} ELSE candidates :
            \E env \in EnvsFor(file_storage) : upload(user, title, file_storage, env)

SpecUpload == Init /\ [][Upload({1}, UploadCandidates)]_vars

(***************************************************************************)
(* GET /post/<id>                                                          *)
(***************************************************************************)
RequestIds == 1..MaxUploads

post(id, db_ok) ==
    /\ UNCHANGED <<fs, posts, likes, nextPostId, uuidCount>>
    /\ LET base == [op |-> "post", id |-> id, db_ok |-> db_ok, status |-> 500,
                    rendered |-> FALSE, like_count |-> 0]
       IN  IF ~db_ok THEN last' = base
           ELSE IF PostsWithId(id) = {}
           THEN last' = [base EXCEPT !.status = AbortInsideTry(404)]
           ELSE last' = [base EXCEPT !.status = 200, !.rendered = TRUE,
                                     !.like_count = Cardinality({l \in likes : l[2] = id})]

PostDetail == \E id \in RequestIds, db_ok \in BOOLEAN : post(id, db_ok)

(***************************************************************************)
(* POST /like/<id>                                                         *)
(***************************************************************************)
like(user, id, db_ok) ==
    /\ UNCHANGED <<fs, posts, nextPostId, uuidCount>>
    /\ IF ~db_ok
       THEN /\ last' = [op |-> "like", status |-> 500]
            /\ UNCHANGED likes
       ELSE /\ last' = [op |-> "like", status |-> 302]
            /\ IF <<user, id>> \in likes
               THEN likes' = likes \ {<<user, id>>}
               ELSE /\ Cardinality(likes) < MaxLikes
                    /\ likes' = likes \cup {<<user, id>>}

Like == \E user \in Users, id \in RequestIds, db_ok \in BOOLEAN : like(user, id, db_ok)

(***************************************************************************)
(* POST /delete/<id>                                                       *)
(***************************************************************************)
Path(dir, name) == [dir |-> dir, name |-> name]

\* os.path.exists(path)
Exists(fsys, path) ==
    IF path.dir = "uploads"
    THEN fsys.uploadDir /\ path.name \in DOMAIN fsys.files
    ELSE fsys.uploadDir /\ fsys.thumbsDir /\ path.name \in DOMAIN fsys.thumbs

\* os.remove(path) that succeeds
Remove(fsys, path) ==
    IF path.dir = "uploads"
    THEN [fsys EXCEPT !.files = Drop(fsys.files, path.name)]
    ELSE [fsys EXCEPT !.thumbs = Drop(fsys.thumbs, path.name)]

\* one round of the removal loop on path: the file is removed when it exists and
\* os.remove succeeds; a failure is logged and the loop goes on
RemoveOne(acc, path, remove_ok) ==
    IF Exists(acc.fs, path)
    THEN IF remove_ok
         THEN [acc EXCEPT !.fs = Remove(acc.fs, path),
                          !.attempted = Append(acc.attempted, path),
                          !.removed = acc.removed \cup {path}]
         ELSE [acc EXCEPT !.attempted = Append(acc.attempted, path),
                          !.logged = acc.logged \cup {path}]
    ELSE [acc EXCEPT !.attempted = Append(acc.attempted, path)]

\* RemoveFiles with the loop left at the first removal that fails
RemoveFilesStopOnFailure(fsys, filename, env) ==
    LET start == [fs |-> fsys, attempted |-> <<>>, removed |-> {}, logged |-> {}]
        first == RemoveOne(start, Path("uploads", filename), env.rmFull)
    IN  IF first.logged # {} THEN first
        ELSE RemoveOne(first, Path("thumbs", filename), env.rmThumb)

\* the loop over the full-size path and the thumbs path of filename
RemoveFiles(fsys, filename, env) ==
    LET start == [fs |-> fsys, attempted |-> <<>>, removed |-> {}, logged |-> {}]
        first == RemoveOne(start, Path("uploads", filename), env.rmFull)
    IN  RemoveOne(first, Path("thumbs", filename), env.rmThumb)

\* int(current_user.id) != int(owner_id) and current_user.username != "admin"
Forbidden(user, owner_id) == user # owner_id /\ Username(user) # "admin"

\* the statement that fails, if any, and whether each os.remove succeeds; an
\* os.remove that the request does not reach has no outcome to choose
DeleteEnvs(user, id) ==
    {e \in [rmFull : BOOLEAN, rmThumb : BOOLEAN, db : {"ok", "select", "delete"}] :
        \/ e.rmFull /\ e.rmThumb
        \/ \E p \in posts :
               /\ p.id = id
               /\ e.db # "select"
               /\ ~Forbidden(user, p.user_id)
               /\ ~e.rmFull => Exists(fs, Path("uploads", p.filename))
               /\ ~e.rmThumb => Exists(fs, Path("thumbs", p.filename))}

delete(user, id, env) ==
    /\ UNCHANGED <<likes, nextPostId, uuidCount>>
    /\ LET base == [op |-> "delete", user |-> user, id |-> id, status |-> 500,
                    found |-> FALSE, owner |-> 0, filename |-> <<>>,
                    attempted |-> <<>>, removed |-> {}, logged |-> {}, db |-> env.db]
       IN  IF env.db = "select"
           THEN /\ last' = base
                /\ UNCHANGED <<fs, posts>>
           ELSE IF PostsWithId(id) = {}
           THEN /\ last' = [base EXCEPT !.status = 302]
                /\ UNCHANGED <<fs, posts>>
           ELSE LET row == CHOOSE p \in posts : p.id = id
                    removed == RemoveFiles(fs, row.filename, env)
                    found == [base EXCEPT !.found = TRUE, !.owner = row.user_id,
                                          !.filename = row.filename]
                IN  IF Forbidden(user, row.user_id)
                    THEN /\ last' = [found EXCEPT !.status = AbortInsideTry(403)]
                         /\ UNCHANGED <<fs, posts>>
                    ELSE /\ fs' = removed.fs
                         /\ IF env.db = "delete"
                            THEN /\ UNCHANGED posts
                                 /\ last' = [found EXCEPT !.attempted = removed.attempted,
                                                           !.removed = removed.removed,
                                                           !.logged = removed.logged]
                            ELSE /\ posts' = posts \ {row}
                                 /\ last' = [found EXCEPT !.attempted = removed.attempted,
                                                           !.removed = removed.removed,
                                                           !.logged = removed.logged,
                                                           !.status = 302]

Delete ==
    \E user \in Users, id \in RequestIds :
        \E env \in DeleteEnvs(user, id) : delete(user, id, env)

(***************************************************************************)
(* generate_thumbs.py, run from the project root                           *)
(***************************************************************************)
SUPPORTED_EXT == {<<".", "p", "n", "g">>, <<".", "j", "p", "g">>, <<".", "j", "p", "e", "g">>,
                  <<".", "g", "i", "f">>, <<".", "w", "e", "b", "p">>}
THUMB_SIZE == <<300, 300>>

\* make_thumbnail(src_path, dst_path): <<ok, thumbs'>>
make_thumbnail(fsys, fn, save_ok) ==
    IF fn \notin DOMAIN fsys.files \/ ~fsys.files[fn].valid
    THEN <<FALSE, fsys.thumbs>>
    ELSE LET im == fsys.files[fn]
             converted == IF im.mode \in {"RGBA", "P"} THEN [im EXCEPT !.mode = "RGB"] ELSE im
             box == ThumbnailSize(converted.width, converted.height, THUMB_SIZE)
             thumb == [converted EXCEPT !.width = box[1], !.height = box[2]]
             saved == ImageSave(fsys.thumbs, fn, thumb, save_ok)
         IN  <<~saved[1], saved[2]>>

\* the loop of main over the listed names; failing holds the names whose
\* thumbnail cannot be written
RECURSIVE GenLoop(_, _, _, _)
GenLoop(acc, files, force, failing) ==
    IF files = {} THEN acc
    ELSE LET fn == CHOOSE f \in files : TRUE
             made == make_thumbnail(acc.fs, fn, fn \notin failing)
             next ==
                 IF lower(splitext(fn)[2]) \notin SUPPORTED_EXT
                 THEN [acc EXCEPT !.skipped = acc.skipped + 1]
                 ELSE IF Exists(acc.fs, Path("thumbs", fn)) /\ ~force
                 THEN [acc EXCEPT !.total = acc.total + 1, !.skipped = acc.skipped + 1]
                 ELSE IF made[1]
                 THEN [acc EXCEPT !.total = acc.total + 1, !.created = acc.created + 1,
                                  !.fs = [acc.fs EXCEPT !.thumbs = made[2]]]
                 ELSE [acc EXCEPT !.total = acc.total + 1, !.failed = acc.failed + 1,
                                  !.fs = [acc.fs EXCEPT !.thumbs = made[2]]]
         IN  GenLoop(next, files \ {fn}, force, failing)

\* main(force): 1 without an upload directory; else the thumbs directory is
\* made, the regular files of the upload directory are listed and looped over
main(force, makedirs_ok, failing) ==
    /\ UNCHANGED <<posts, likes, nextPostId, uuidCount>>
    /\ LET base == [op |-> "generate_thumbs", exit |-> 1, total |-> 0, created |-> 0,
                    skipped |-> 0, failed |-> 0]
       IN  IF ~fs.uploadDir
           THEN /\ last' = base
                /\ UNCHANGED fs
           ELSE IF ~makedirs_ok
           THEN /\ last' = base
                /\ UNCHANGED fs
           ELSE LET start == [fs |-> [fs EXCEPT !.thumbsDir = TRUE], total |-> 0,
                              created |-> 0, skipped |-> 0, failed |-> 0]
                    done == GenLoop(start, DOMAIN fs.files, force, failing)
                IN  /\ fs' = done.fs
                    /\ last' = [base EXCEPT !.exit = 0, !.total = done.total,
                                            !.created = done.created,
                                            !.skipped = done.skipped,
                                            !.failed = done.failed]

GenerateThumbs ==
    \E force \in BOOLEAN, makedirs_ok \in BOOLEAN, failing \in SUBSET DOMAIN fs.files :
        main(force, makedirs_ok, failing)

(***************************************************************************)
(* Specifications.  SpecUpload is the ingestion pipeline over every        *)
(* candidate; Spec is the life of a stored image: uploads of the plain     *)
(* image, deletions by any user and runs of the batch generator;           *)
(* SpecDetail is the posts and likes tables behind the detail route.       *)
(***************************************************************************)
Next ==
    \/ Upload({1}, {PlainPng})
    \/ Delete
    \/ GenerateThumbs

Spec == Init /\ [][Next]_vars

NextDelete ==
    \/ Upload({1}, {PlainPng})
    \/ Delete

SpecDelete == Init /\ [][NextDelete]_vars

NextDetail ==
    \/ Upload({1}, {PlainPng})
    \/ Like
    \/ PostDetail
    \/ Delete

SpecDetail == Init /\ [][NextDetail]_vars

(***************************************************************************)
(* The claims.  last is the most recent request with its inputs and its    *)
(* answer, so a predicate on last and the other variables speaks of the    *)
(* state that request left behind.                                         *)
(***************************************************************************)
FullPath(filename) == Path("uploads", filename)
ThumbPath(filename) == Path("thumbs", filename)

CalledUpload(l) == l.op = "upload" /\ l.called

\* the part of name after its last dot, lowercased; empty without a dot
OriginalExtension(name) ==
    IF "." \in Range(name)
    THEN lower(SubSeq(name, rfind(name, ".") + 1, Len(name)))
    ELSE <<>>

DeclaresImage(file_storage) ==
    /\ file_storage.content_type.some
    /\ startswith(file_storage.content_type.val, <<"i", "m", "a", "g", "e", "/">>)

\* a decodable image within the bound, named with an accepted extension and
\* declared as image/...
ValidUpload(file_storage) ==
    /\ file_storage.present
    /\ file_storage.stream.valid
    /\ file_storage.stream.width <= DEFAULT_MAX_DIMENSIONS[1]
    /\ file_storage.stream.height <= DEFAULT_MAX_DIMENSIONS[2]
    /\ OriginalExtension(file_storage.filename) \in ALLOWED_EXTENSIONS
    /\ DeclaresImage(file_storage)

\* C1: an upload of a valid image within the dimension bound, with an accepted
\* extension (whatever its basename) and an image/ content-type, none of whose
\* system calls fails, returns (filename, no error); the filename carries the
\* original's extension and a file exists at <upload_root>/<filename>.
C1_ValidUploadIsStored ==
    (CalledUpload(last) /\ last.env = NoFailure /\ ValidUpload(last.file))
    => /\ last.ret.filename.some
       /\ ~last.ret.error.some
       /\ lower(splitext(last.ret.filename.val)[2])
            = <<".">> \o OriginalExtension(last.file.filename)
       /\ Exists(fs, FullPath(last.ret.filename.val))

\* C2: two uploads in a row that end in different failure states (GateRejected,
\* DecodeRejected, DimensionRejected, StoreFailed) are answered with different
\* messages.
FailureStates == {"GateRejected", "DecodeRejected", "DimensionRejected", "StoreFailed"}
FailedUpload(l) == CalledUpload(l) /\ l.ret.state \in FailureStates
C2_FailureMessagesDistinct ==
    [][(FailedUpload(last) /\ FailedUpload(last') /\ last.ret.state # last'.ret.state)
         => last.ret.error.val # last'.ret.error.val]_vars

\* C3: in every reachable state a thumbnail <upload_root>/thumbs/<name> exists
\* only if the full-size file <upload_root>/<name> exists.
C3_ThumbnailImpliesFullSize ==
    \A name \in DOMAIN fs.thumbs : name \in DOMAIN fs.files

\* C4: when the primary image has been written and the thumbnail step fails
\* (directory creation, resize or write), the upload still returns (filename, no
\* error) and the primary file is in place with the content that was stored.
StoredContent(stream) ==
    [valid |-> TRUE, mode |-> IF stream.mode \in {"RGBA", "P"} THEN "RGB" ELSE stream.mode,
     width |-> stream.width, height |-> stream.height]
ThumbnailFailedAfterStore(l) ==
    /\ CalledUpload(l)
    /\ l.env.thumb # "ok"
    /\ l.ret.state \notin Rejections \cup {"StoreFailed", "Raised"}
C4_ThumbnailFailureAbsorbed ==
    ThumbnailFailedAfterStore(last)
    => /\ last.ret.filename.some
       /\ ~last.ret.error.some
       /\ ~last.ret.raised
       /\ Exists(fs, FullPath(last.ret.filename.val))
       /\ fs.files[last.ret.filename.val] = StoredContent(last.file.stream)
C4_Witness ==
    /\ ThumbnailFailedAfterStore(last)
    /\ last.env.thumb = "save"
    /\ last.file.stream.mode = "RGBA"
    /\ ~Exists(fs, ThumbPath(last.ret.filename.val))

\* C5: an upload that ends in a gate, decode or dimension rejection leaves the
\* filesystem as it was: no file and no directory is created or written.
C5_RejectionWritesNothing ==
    [][(CalledUpload(last') /\ last'.ret.state \in Rejections) => fs' = fs]_vars
C5_Witness ==
    /\ CalledUpload(last)
    /\ last.ret.state = "DimensionRejected"
    /\ ~fs.uploadDir

\* C6: an upload whose declared content-type is missing or does not start with
\* image/ is rejected (no filename, an error) and the decoder is not invoked,
\* also when the extension is accepted and the bytes are a valid image.
C6_ContentTypeGate ==
    (CalledUpload(last) /\ ~DeclaresImage(last.file))
    => /\ ~last.ret.filename.some
       /\ last.ret.error.some
       /\ ~last.ret.raised
       /\ ~last.ret.verified
C6_Witness ==
    /\ CalledUpload(last)
    /\ last.file.present
    /\ last.file.stream.valid
    /\ OriginalExtension(last.file.filename) \in ALLOWED_EXTENSIONS
    /\ last.file.content_type.some
    /\ last.file.content_type.val # <<>>
    /\ ~DeclaresImage(last.file)
    /\ last.ret.error = Some(MSG_BAD_MIMETYPE)

\* C7: a delete by the post's owner or by admin visits the full-size path and
\* the thumbs path of the post's filename, in that order, whatever happens at
\* either; a file is left behind exactly when its removal failed; and unless a
\* database statement fails the post record is removed and the request ends in
\* the redirect.
AuthorizedDelete(l) ==
    /\ l.op = "delete"
    /\ l.found
    /\ (l.user = l.owner \/ Username(l.user) = "admin")
C7_RemovalsIndependentNonFatal ==
    AuthorizedDelete(last)
    => /\ last.attempted = <<FullPath(last.filename), ThumbPath(last.filename)>>
       /\ \A path \in {FullPath(last.filename), ThumbPath(last.filename)} :
              /\ Exists(fs, path) <=> path \in last.logged
              /\ path \notin last.removed \cap last.logged
       /\ last.db = "ok" => last.status = 302 /\ PostsWithId(last.id) = {}
C7_Witness ==
    /\ AuthorizedDelete(last)
    /\ last.logged = {FullPath(last.filename)}
    /\ last.removed = {ThumbPath(last.filename)}
    /\ last.status = 302

\* C8: the filename a successful upload returns is borne by no file, thumbnail
\* or post that was there before it, and differs from the filename the upload
\* just before it returned.
SuccessfulUpload(l) == CalledUpload(l) /\ l.ret.filename.some
C9_OnlyOwnerOrAdminDeletes ==
    (/\ last.op = "delete"
     /\ last.found
     /\ last.user # last.owner
     /\ Username(last.user) # "admin")
    => /\ last.status = 403
       /\ last.attempted = <<>>
       /\ PostsWithId(last.id) # {}

\* C10: when the database answers, the detail route answers 404 if no post has
\* the requested id and otherwise renders the post with its like count.
C10_MissingPostIs404 ==
    (last.op = "post" /\ last.db_ok)
    => IF PostsWithId(last.id) = {}
       THEN last.status = 404
       ELSE /\ last.status = 200
            /\ last.rendered
            /\ last.like_count = Cardinality({l \in likes : l[2] = last.id})

\* C11: in every state reachable by upload and delete requests, also ones in
\* which a file removal or a database statement fails, the filename of each
\* post record names a full-size file that exists under the upload root.
C11_PostFileExists ==
    \A p \in posts : Exists(fs, FullPath(p.filename))

====
